---- MODULE Spec2Model ----
(***************************************************************************)
(* Model of src/src/EventModule.ts: a typed publish/subscribe layer over   *)
(* window.dispatchEvent / window.addEventListener, with a React hook       *)
(* (useEventListener) that binds a listener to a component's lifetime.     *)
(*                                                                         *)
(* The window's event listener list, every component instance's hook state *)
(* (last rendered props, handlerRef, the pending effect cleanup) are the   *)
(* state.  One action per host/lifecycle step: mount, re-render with a new *)
(* handler, re-render with a new key/options, re-render with both,         *)
(* unmount, a repeated call of an old cleanup function, and emit.          *)
(*                                                                         *)
(* Spec takes an emit as one step (handlers that only return).  SpecD      *)
(* follows window.dispatchEvent listener by listener, with handlers that   *)
(* return, throw, call emit, or unmount a component synchronously.         *)
(***************************************************************************)
EXTENDS Integers, Sequences, FiniteSets, TLC

\* ------------------------------------------------------------------ bounds
MaxInst == 2        \* component instances using the hook
MaxDepth == 2       \* dispatches in progress at once (emit called in a handler)

Instances == 1..MaxInst

\* The handler functions a component may pass to the hook.
Handlers == {"h1", "h2"}
NoHandler == "none"

\* Payload objects: ref is the object's identity, val its content.  The two
\* payloads have the same content and are distinct objects.
Payloads == { [ref |-> "p1", val |-> "n"], [ref |-> "p2", val |-> "n"] }
NoPayload == [ref |-> "none", val |-> ""]

\* Event keys are symbols: id is the token's identity, description the
\* human-readable text given to Symbol(...).  Keys 1 and 2 are two distinct
\* tokens with the same description.
Keys ==
  { [id |-> 1, description |-> "ping"],
    [id |-> 2, description |-> "ping"],
    [id |-> 3, description |-> "pong"] }
NoKey == [id |-> 0, description |-> ""]

\* The third argument of addEventListener: undefined, a boolean, or an
\* AddEventListenerOptions object (capture and once fields).
Options ==
  { [kind |-> "undefined", capture |-> FALSE, once |-> FALSE],
    [kind |-> "boolean",   capture |-> TRUE,  once |-> FALSE],
    [kind |-> "object",    capture |-> FALSE, once |-> TRUE] }
NoOptions == [kind |-> "undefined", capture |-> FALSE, once |-> FALSE]

\* --------------------------------------------------------------- state
VARIABLES
  listeners,   \* window's event listener list, in registration order
  comp,        \* per component instance: the hook's state
  last,        \* history: the operation performed by the last step
  calls,       \* history: handler invocations made by the last step, in order
  subscribedWith, \* history: per instance, the handler of the render whose
                  \* effect made the current subscription
  stack        \* the window.dispatchEvent calls in progress, innermost first

vars == <<listeners, comp, last, calls, subscribedWith, stack>>

NoCallback == [id |-> 0, inst |-> 0]
NoCleanup == [type |-> "", eventListener |-> NoCallback, options |-> NoOptions]

\* Hook state of a component that has never rendered.
Unmounted ==
  [ active     |-> FALSE,
    eventKey   |-> NoKey,
    handler    |-> NoHandler,
    options    |-> NoOptions,
    handlerRef |-> NoHandler,
    cleanup    |-> NoCleanup ]

\* ---------------------------------------------------- pure functions
\* String(eventKey) for a symbol: "Symbol(<description>)".
KeyString(eventKey) == "Symbol(" \o eventKey.description \o ")"

\* DOM "flatten options": the capture flag of the third argument.
FlattenCapture(options) ==
  IF options.kind = "undefined" THEN FALSE ELSE options.capture

\* DOM "flatten more": the once flag of the third argument.
FlattenOnce(options) ==
  IF options.kind = "object" THEN options.once ELSE FALSE

\* Variant of CustomEvent: the payload is copied into the event.
CustomEventCloned(eventKey, payload) ==
  [type |-> KeyString(eventKey), detail |-> [payload EXCEPT !.ref = "copy"]]

\* new CustomEvent(String(eventKey), { detail: payload }): the payload is
\* stored by reference.
CustomEvent(eventKey, payload) ==
  [type |-> KeyString(eventKey), detail |-> payload]

\* The closures something still refers to: the callbacks in the window's
\* list and the ones captured by a cleanup function.
LiveClosures(ls, c) ==
  { ls[n].callback : n \in 1..Len(ls) }
    \cup { c[i].cleanup.eventListener : i \in Instances }

\* A new closure `eventListener` created by a render of instance i: inst is
\* the instance whose handlerRef it captured; its identity differs from
\* every closure that is still referred to.
NewEventListener(ls, c, i) ==
  [ id   |-> CHOOSE n \in 1..(Cardinality(LiveClosures(ls, c)) + 1) :
                [id |-> n, inst |-> i] \notin LiveClosures(ls, c),
    inst |-> i ]

\* window.addEventListener(type, callback, options): appended unless a
\* listener with the same type, callback and capture is already there.
AddEventListener(ls, type, callback, options) ==
  IF \E n \in 1..Len(ls) :
        /\ ls[n].type = type
        /\ ls[n].callback = callback
        /\ ls[n].capture = FlattenCapture(options)
  THEN ls
  ELSE Append(ls, [ type     |-> type,
                    callback |-> callback,
                    capture  |-> FlattenCapture(options),
                    once     |-> FlattenOnce(options) ])

\* Variant of RemoveEventListener: the callback is not compared.
RemoveEventListenerAnyCallback(ls, type, callback, options) ==
  SelectSeq(ls, LAMBDA l :
    ~ (l.type = type /\ l.capture = FlattenCapture(options)))

\* window.removeEventListener(type, callback, options): removes the listener
\* with the same type, callback and capture, if any.
RemoveEventListener(ls, type, callback, options) ==
  SelectSeq(ls, LAMBDA l :
    ~ ( /\ l.type = type
        /\ l.callback = callback
        /\ l.capture = FlattenCapture(options) ))

\* The closure eventListener: reads handlerRef.current of its instance when
\* it is called and passes the event's detail to it.
EventListenerCall(c, callback, event) ==
  [ inst    |-> callback.inst,
    handler |-> c[callback.inst].handlerRef,
    payload |-> event.detail ]

RECURSIVE InvokeAll(_, _, _)
InvokeAll(c, ls, event) ==
  IF ls = <<>> THEN <<>>
  ELSE <<EventListenerCall(c, Head(ls).callback, event)>>
         \o InvokeAll(c, Tail(ls), event)

\* Variant of Dispatched: the most recently registered listener first.
DispatchedReversed(ls, event) ==
  LET sel == SelectSeq(ls, LAMBDA l : l.type = event.type) IN
    [n \in 1..Len(sel) |-> sel[Len(sel) + 1 - n]]

\* The listeners window.dispatchEvent invokes for an event whose target is
\* window: those of the event's type, the capture ones first (in
\* registration order), then the others (in registration order).
Dispatched(ls, event) ==
  SelectSeq(ls, LAMBDA l : l.type = event.type /\ l.capture)
    \o SelectSeq(ls, LAMBDA l : l.type = event.type /\ ~l.capture)

\* Variant of AfterDispatch: the once flag is ignored.
AfterDispatchKeepOnce(ls, event) == ls

\* The window's list after the dispatch: a once listener is removed when it
\* is invoked.
AfterDispatch(ls, event) ==
  SelectSeq(ls, LAMBDA l : ~(l.type = event.type /\ l.once))

\* The cleanup function returned by the subscribing effect: it captured
\* eventKey, eventListener and options of the render that subscribed.
CleanupOf(eventKey, callback, options) ==
  [type |-> KeyString(eventKey), eventListener |-> callback, options |-> options]

\* Variant of RunCleanup: every listener of the event type is removed.
RunCleanupAllOfType(ls, cleanup) ==
  SelectSeq(ls, LAMBDA l : l.type # cleanup.type)

\* Variant of RunCleanup: removeEventListener called without the options.
RunCleanupNoOptions(ls, cleanup) ==
  RemoveEventListener(ls, cleanup.type, cleanup.eventListener, NoOptions)

\* Running a cleanup function.
RunCleanup(ls, cleanup) ==
  RemoveEventListener(ls, cleanup.type, cleanup.eventListener, cleanup.options)

\* Variant of SetHandlerRef: the first effect empties the cell.
SetHandlerRefCleared(c, handler) == [c EXCEPT !.handlerRef = NoHandler]

\* Variant of SetHandlerRef: the first effect is missing.
SetHandlerRefNever(c, handler) == c

\* handlerRef.current = handler (the first effect).
SetHandlerRef(c, handler) == [c EXCEPT !.handlerRef = handler]

\* ------------------------------------------------------------ actions
\* The history record of a step: the operation; for an emit its key and
\* payload; for a re-render that changed only eventKey or options the
\* instance and the key before the change.
Op(op, i, eventKey, payload) ==
  [op |-> op, inst |-> i, eventKey |-> eventKey, payload |-> payload]

Init ==
  /\ listeners = <<>>
  /\ comp = [i \in Instances |-> Unmounted]
  /\ last = Op("init", 0, NoKey, NoPayload)
  /\ calls = <<>>
  /\ subscribedWith = [i \in Instances |-> NoHandler]
  /\ stack = <<>>

\* Variant of Subscribe: the effect returns no cleanup to run on re-render.
SubscribeNoCleanup(ls, c, i, eventKey, options) ==
  LET eventListener == NewEventListener(ls, c, i) IN
    [ listeners |-> AddEventListener(ls, KeyString(eventKey), eventListener,
                                     options),
      cleanup   |-> CleanupOf(eventKey, eventListener, options) ]

\* Variant of Subscribe: on a re-render the new eventListener takes the place
\* of the old one in the window's list.
SubscribeKeepPosition(ls, c, i, eventKey, options) ==
  LET eventListener == NewEventListener(ls, c, i)
      new == [ type     |-> KeyString(eventKey),
               callback |-> eventListener,
               capture  |-> FlattenCapture(options),
               once     |-> FlattenOnce(options) ]
      old == c[i].cleanup.eventListener IN
    [ listeners |->
        IF c[i].active /\ \E n \in 1..Len(ls) : ls[n].callback = old
        THEN [n \in 1..Len(ls) |-> IF ls[n].callback = old THEN new ELSE ls[n]]
        ELSE Append(ls, new),
      cleanup   |-> CleanupOf(eventKey, eventListener, options) ]

\* The second effect running for instance i: on a re-render the cleanup of
\* its previous run first, then a new eventListener subscribed with eventKey
\* and options.
Subscribe(ls, c, i, eventKey, options) ==
  LET eventListener == NewEventListener(ls, c, i) IN
    [ listeners |-> AddEventListener(
                      IF c[i].active THEN RunCleanup(ls, c[i].cleanup)
                      ELSE ls,
                      KeyString(eventKey), eventListener, options),
      cleanup   |-> CleanupOf(eventKey, eventListener, options) ]

\* Variant of Activate: a listener that subscribes is handed the payload of
\* the emit that has just happened on its event type.
ActivateReplaying(i, eventKey, handler, options) ==
  /\ ~comp[i].active
  /\ LET r == Subscribe(listeners, comp, i, eventKey, options) IN
       /\ listeners' = r.listeners
       /\ comp' = [comp EXCEPT ![i] =
            [ active     |-> TRUE,
              eventKey   |-> eventKey,
              handler    |-> handler,
              options    |-> options,
              handlerRef |-> handler,
              cleanup    |-> r.cleanup ]]
  /\ last' = [op |-> "activate", inst |-> 0, eventKey |-> NoKey,
              payload |-> NoPayload]
  /\ calls' = IF last.op = "emit" /\ KeyString(last.eventKey) = KeyString(eventKey)
              THEN <<[inst |-> i, handler |-> handler, payload |-> last.payload]>>
              ELSE <<>>
  /\ subscribedWith' = [subscribedWith EXCEPT ![i] = handler]

\* Mount: useRef(handler), then both effects run.
Activate(i, eventKey, handler, options) ==
  /\ ~comp[i].active
  /\ LET r == Subscribe(listeners, comp, i, eventKey, options) IN
       /\ listeners' = r.listeners
       /\ comp' = [comp EXCEPT ![i] =
            SetHandlerRef(
              [ active     |-> TRUE,
                eventKey   |-> eventKey,
                handler    |-> handler,
                options    |-> options,
                handlerRef |-> handler,
                cleanup    |-> r.cleanup ],
              handler)]
  /\ last' = Op("activate", 0, NoKey, NoPayload)
  /\ calls' = <<>>
  /\ subscribedWith' = [subscribedWith EXCEPT ![i] = handler]

\* Variant of UpdateHandler: handler is among the second effect's
\* dependencies, so the second effect re-runs too.
UpdateHandlerResubscribing(i, handler) ==
  /\ comp[i].active
  /\ handler # comp[i].handler
  /\ LET r == Subscribe(listeners, comp, i, comp[i].eventKey, comp[i].options) IN
       /\ listeners' = r.listeners
       /\ comp' = [comp EXCEPT ![i] =
            [comp[i] EXCEPT !.handler = handler, !.handlerRef = handler,
                            !.cleanup = r.cleanup]]
  /\ last' = [op |-> "updateHandler", inst |-> 0, eventKey |-> NoKey,
              payload |-> NoPayload]
  /\ calls' = <<>>
  /\ subscribedWith' = [subscribedWith EXCEPT ![i] = handler]

\* Re-render with a new handler and the same eventKey and options: only the
\* first effect runs.
UpdateHandler(i, handler) ==
  /\ comp[i].active
  /\ handler # comp[i].handler
  /\ comp' = [comp EXCEPT ![i] =
        SetHandlerRef([comp[i] EXCEPT !.handler = handler], handler)]
  /\ listeners' = listeners
  /\ last' = Op("updateHandler", 0, NoKey, NoPayload)
  /\ calls' = <<>>
  /\ subscribedWith' = subscribedWith

\* Re-render with a new eventKey or options and the same handler: only the
\* second effect re-runs.
Reconfigure(i, eventKey, options) ==
  /\ comp[i].active
  /\ <<eventKey, options>> # <<comp[i].eventKey, comp[i].options>>
  /\ LET r == Subscribe(listeners, comp, i, eventKey, options) IN
       /\ listeners' = r.listeners
       /\ comp' = [comp EXCEPT ![i] =
            [comp[i] EXCEPT !.eventKey = eventKey, !.options = options,
                            !.cleanup = r.cleanup]]
  /\ last' = Op("reconfigure", i, comp[i].eventKey, NoPayload)
  /\ calls' = <<>>
  /\ subscribedWith' = [subscribedWith EXCEPT ![i] = comp[i].handler]

\* Re-render with a new handler and a new eventKey or options: the old
\* cleanup runs, then the first effect, then the second.
Rerender(i, eventKey, handler, options) ==
  /\ comp[i].active
  /\ handler # comp[i].handler
  /\ <<eventKey, options>> # <<comp[i].eventKey, comp[i].options>>
  /\ LET r == Subscribe(listeners, comp, i, eventKey, options) IN
       /\ listeners' = r.listeners
       /\ comp' = [comp EXCEPT ![i] =
            SetHandlerRef(
              [comp[i] EXCEPT !.eventKey = eventKey, !.options = options,
                              !.handler = handler, !.cleanup = r.cleanup],
              handler)]
  /\ last' = Op("rerender", 0, NoKey, NoPayload)
  /\ calls' = <<>>
  /\ subscribedWith' = [subscribedWith EXCEPT ![i] = handler]

\* Unmount: the second effect's cleanup runs and the hook state is dropped.
\* The cleanup function that ran (with the closure it captured) stays
\* callable until the instance mounts again.
Deactivate(i) ==
  /\ comp[i].active
  /\ listeners' = RunCleanup(listeners, comp[i].cleanup)
  /\ comp' = [comp EXCEPT ![i] = [Unmounted EXCEPT !.cleanup = comp[i].cleanup]]
  /\ last' = Op("deactivate", 0, NoKey, NoPayload)
  /\ calls' = <<>>
  /\ subscribedWith' = [subscribedWith EXCEPT ![i] = NoHandler]

\* The cleanup function of an unmounted instance, which has already run, is
\* called once more.
CleanupAgain(i) ==
  /\ ~comp[i].active
  /\ comp[i].cleanup # NoCleanup
  /\ listeners' = RunCleanup(listeners, comp[i].cleanup)
  /\ comp' = comp
  /\ last' = Op("cleanupAgain", 0, NoKey, NoPayload)
  /\ calls' = <<>>
  /\ subscribedWith' = subscribedWith

\* emit(eventKey, payload): window.dispatchEvent(new CustomEvent(...)).
Emit(eventKey, payload) ==
  LET event == CustomEvent(eventKey, payload) IN
    /\ calls' = InvokeAll(comp, Dispatched(listeners, event), event)
    /\ listeners' = AfterDispatch(listeners, event)
    /\ comp' = comp
    /\ last' = Op("emit", 0, eventKey, payload)
    /\ subscribedWith' = subscribedWith

Next ==
  \/ \E i \in Instances, k \in Keys, h \in Handlers, o \in Options :
       Activate(i, k, h, o) /\ UNCHANGED stack
  \/ \E i \in Instances, h \in Handlers :
       UpdateHandler(i, h) /\ UNCHANGED stack
  \/ \E i \in Instances, k \in Keys, o \in Options :
       Reconfigure(i, k, o) /\ UNCHANGED stack
  \/ \E i \in Instances, k \in Keys, h \in Handlers, o \in Options :
       Rerender(i, k, h, o) /\ UNCHANGED stack
  \/ \E i \in Instances : Deactivate(i) /\ UNCHANGED stack
  \/ \E i \in Instances : CleanupAgain(i) /\ UNCHANGED stack
  \/ \E k \in Keys, p \in Payloads : Emit(k, p) /\ UNCHANGED stack

Spec == Init /\ [][Next]_vars

\* ------------------------------------------- dispatch, listener by listener
\* The inputs of SpecD: two keys with different strings, one handler
\* function, one payload; what a handler does when it is invoked is chosen
\* at each invocation.
DispatchKeys == { k \in Keys : k.id \in {1, 3} }
DispatchHandlers == {"h1"}
DispatchPayloads == { p \in Payloads : p.ref = "p1" }

\* What an invoked handler does: it returns, it throws, it calls
\* emit(eventKey, payload), or it unmounts the component instance inst
\* synchronously.
Does(kind, eventKey, i) == [kind |-> kind, eventKey |-> eventKey, inst |-> i]

\* A window.dispatchEvent(event) call in progress: the phase it is in, the
\* listeners (a copy of the window's list, taken when the phase begins) it
\* has still to look at, and as history the listeners it set out with and
\* the invocations it has made.
NewFrame(ls, event) ==
  [ event   |-> event,
    phase   |-> "capturing",
    queue   |-> SelectSeq(ls, LAMBDA l : l.type = event.type /\ l.capture),
    initial |-> Dispatched(ls, event),
    log     |-> <<>> ]

\* Variant of PushFrame: the dispatch of an emit made while another dispatch
\* is in progress waits until that one has completed.
PushFrameDeferred(stk, frame) == stk \o <<frame>>

\* dispatchEvent is a synchronous call: the new dispatch runs at once, on
\* top of the dispatches in progress.
PushFrame(stk, frame) == <<frame>> \o stk

\* Variant of Removed: the copy of the list is iterated without looking at
\* removals made meanwhile.
RemovedIgnored(ls, l) == FALSE

\* A listener of the copy that removeEventListener (or a once delivery) has
\* taken out of the window's list meanwhile is not invoked.
Removed(ls, l) == \A n \in 1..Len(ls) : ls[n] # l

\* Variant of AfterThrow: the exception ends the dispatch.
AfterThrowAbort(frame) == [frame EXCEPT !.queue = <<>>, !.phase = "bubbling"]

\* A handler's exception is reported by the window and the dispatch goes
\* on with the next listener.
AfterThrow(frame) == frame

\* A once listener is removed from the window's list when it is invoked.
OnceRemoved(ls, l) == IF l.once THEN SelectSeq(ls, LAMBDA x : x # l) ELSE ls

\* The frame after its next listener has been invoked.
Advance(frame, c, does) ==
  [frame EXCEPT !.queue = Tail(@), !.log = Append(@, [call |-> c, does |-> does])]

\* The innermost dispatch has a listener to invoke next.
CanDeliver ==
  /\ stack # <<>>
  /\ Head(stack).queue # <<>>
  /\ ~Removed(listeners, Head(Head(stack).queue))

\* The invocation the innermost dispatch makes next.
NextCall ==
  EventListenerCall(comp, Head(Head(stack).queue).callback, Head(stack).event)

\* emit(eventKey, payload) called by the host: dispatchEvent begins.
StartEmit(eventKey, payload) ==
  /\ stack = <<>>
  /\ stack' = PushFrame(stack, NewFrame(listeners, CustomEvent(eventKey, payload)))
  /\ last' = Op("emit", 0, eventKey, payload)
  /\ calls' = <<>>
  /\ UNCHANGED <<listeners, comp, subscribedWith>>

\* The next listener is invoked and its handler returns.
DeliverReturn ==
  /\ CanDeliver
  /\ listeners' = OnceRemoved(listeners, Head(Head(stack).queue))
  /\ stack' = <<Advance(Head(stack), NextCall, Does("return", NoKey, 0))>>
                 \o Tail(stack)
  /\ calls' = Append(calls, NextCall)
  /\ UNCHANGED <<comp, last, subscribedWith>>

\* The next listener is invoked and its handler throws.
DeliverThrow ==
  /\ CanDeliver
  /\ listeners' = OnceRemoved(listeners, Head(Head(stack).queue))
  /\ stack' = <<AfterThrow(Advance(Head(stack), NextCall,
                                   Does("throw", NoKey, 0)))>>
                 \o Tail(stack)
  /\ calls' = Append(calls, NextCall)
  /\ UNCHANGED <<comp, last, subscribedWith>>

\* The next listener is invoked and its handler calls emit(eventKey, payload).
DeliverEmit(eventKey, payload) ==
  /\ CanDeliver
  /\ Len(stack) < MaxDepth
  /\ listeners' = OnceRemoved(listeners, Head(Head(stack).queue))
  /\ stack' = PushFrame(
                 <<Advance(Head(stack), NextCall, Does("emit", eventKey, 0))>>
                   \o Tail(stack),
                 NewFrame(listeners', CustomEvent(eventKey, payload)))
  /\ calls' = Append(calls, NextCall)
  /\ UNCHANGED <<comp, last, subscribedWith>>

\* The next listener is invoked and its handler unmounts instance j
\* synchronously: the cleanup of j's second effect runs before the handler
\* returns.
DeliverUnmount(j) ==
  /\ CanDeliver
  /\ comp[j].active
  /\ listeners' = RunCleanup(OnceRemoved(listeners, Head(Head(stack).queue)),
                             comp[j].cleanup)
  /\ comp' = [comp EXCEPT ![j] = [Unmounted EXCEPT !.cleanup = comp[j].cleanup]]
  /\ subscribedWith' = [subscribedWith EXCEPT ![j] = NoHandler]
  /\ stack' = <<Advance(Head(stack), NextCall, Does("unmount", NoKey, j))>>
                 \o Tail(stack)
  /\ calls' = Append(calls, NextCall)
  /\ UNCHANGED last

\* The next listener of the copy is no longer in the window's list.
SkipRemoved ==
  /\ stack # <<>>
  /\ Head(stack).queue # <<>>
  /\ Removed(listeners, Head(Head(stack).queue))
  /\ stack' = <<[Head(stack) EXCEPT !.queue = Tail(@)]>> \o Tail(stack)
  /\ UNCHANGED <<listeners, comp, last, calls, subscribedWith>>

\* The capture listeners are done: the dispatch copies the window's list
\* again and goes through the other listeners.
NextPhase ==
  /\ stack # <<>>
  /\ Head(stack).queue = <<>>
  /\ Head(stack).phase = "capturing"
  /\ stack' = <<[Head(stack) EXCEPT
                   !.phase = "bubbling",
                   !.queue = SelectSeq(listeners, LAMBDA l :
                               l.type = Head(stack).event.type /\ ~l.capture)]>>
                 \o Tail(stack)
  /\ UNCHANGED <<listeners, comp, last, calls, subscribedWith>>

\* dispatchEvent returns, and emit after it (to the host, or into the
\* handler that called it).
ReturnFromEmit ==
  /\ stack # <<>>
  /\ Head(stack).queue = <<>>
  /\ Head(stack).phase = "bubbling"
  /\ stack' = Tail(stack)
  /\ UNCHANGED <<listeners, comp, last, calls, subscribedWith>>

\* The host mounts and unmounts components and calls emit only while no
\* dispatch is in progress (one thread of control).
NextD ==
  \/ \E i \in Instances, k \in DispatchKeys, h \in DispatchHandlers,
         o \in Options :
       stack = <<>> /\ Activate(i, k, h, o) /\ UNCHANGED stack
  \/ \E i \in Instances : stack = <<>> /\ Deactivate(i) /\ UNCHANGED stack
  \/ \E k \in DispatchKeys, p \in DispatchPayloads : StartEmit(k, p)
  \/ DeliverReturn
  \/ DeliverThrow
  \/ \E k \in DispatchKeys, p \in DispatchPayloads : DeliverEmit(k, p)
  \/ \E j \in Instances : DeliverUnmount(j)
  \/ SkipRemoved
  \/ NextPhase
  \/ ReturnFromEmit

SpecD == Init /\ [][NextD]_vars

\* ------------------------------------------------------------ claims
\* The invocations of instance i's handler among the calls cs.
CallsTo(cs, i) == SelectSeq(cs, LAMBDA c : c.inst = i)

\* The window's listeners whose callback is a closure of instance i.
Registrations(ls, i) == SelectSeq(ls, LAMBDA l : l.callback.inst = i)

C2_OneRegistrationPerActive ==
  \A i \in Instances :
    Len(Registrations(listeners, i)) = IF comp[i].active THEN 1 ELSE 0

\* C2 amended: in every state an instance that is not Active has no
\* registration; an Active instance has at most one, which is the closure its
\* cleanup captured, registered under its key's string with its options; and
\* it has exactly one unless it was subscribed with once.
C2_RegistrationsMatchActive ==
  \A i \in Instances :
    LET regs == Registrations(listeners, i) IN
      /\ ~comp[i].active => regs = <<>>
      /\ comp[i].active =>
           /\ Len(regs) <= 1
           /\ regs # <<>> =>
                regs[1] = [ type     |-> KeyString(comp[i].eventKey),
                            callback |-> comp[i].cleanup.eventListener,
                            capture  |-> FlattenCapture(comp[i].options),
                            once     |-> FlattenOnce(comp[i].options) ]
           /\ ~FlattenOnce(comp[i].options) => Len(regs) = 1

\* C2 witness: after an emit, one Active instance holds its registration, a
\* second Active instance (subscribed with once) has lost its own.
C2_Witness ==
  /\ last.op = "emit"
  /\ \E i, j \in Instances :
       /\ comp[i].active /\ Len(Registrations(listeners, i)) = 1
       /\ comp[j].active /\ FlattenOnce(comp[j].options)
       /\ Registrations(listeners, j) = <<>>

\* C3: an emit never invokes the handler of an instance that has been
\* deactivated and not activated again.
C3_NoDeliveryAfterDeactivate ==
  [][ last'.op = "emit" =>
        \A i \in Instances :
          (~comp[i].active /\ comp[i].cleanup # NoCleanup) =>
            CallsTo(calls', i) = <<>> ]_vars

\* C3 witness: an emit on the key string a deactivated capture listener was
\* registered under has just been delivered to another instance.
C3_Witness ==
  /\ last.op = "emit"
  /\ calls # <<>>
  /\ \E i \in Instances :
       /\ ~comp[i].active
       /\ comp[i].cleanup.type = KeyString(last.eventKey)
       /\ FlattenCapture(comp[i].cleanup.options)
       /\ CallsTo(calls, i) = <<>>

\* C4: every handler invocation made by an emit invokes the handler most
\* recently supplied by its instance's render, also when the subscription
\* was made by an earlier render with another handler.
C4_LatestHandlerInvoked ==
  [][ last'.op = "emit" =>
        \A n \in 1..Len(calls') :
          calls'[n].handler = comp[calls'[n].inst].handler ]_vars

\* C4 witness: an emit has just invoked a handler that differs from the one
\* supplied when the subscription was made.
C4_Witness ==
  /\ last.op = "emit"
  /\ \E n \in 1..Len(calls) :
       /\ calls[n].handler # subscribedWith[calls[n].inst]
       /\ calls[n].handler = comp[calls[n].inst].handler

\* C5 as stated: a re-render that changes only eventKey or options leaves
\* the instance with exactly one registration, under the new key's string and
\* with the new options, and keeps handlerRef; an emit on the old key that
\* follows does not reach the instance and an emit on the new key reaches it
\* exactly once.
C5_ReconfigureMovesRegistration ==
  [][ /\ last'.op = "reconfigure" =>
           LET i == last'.inst
               regs == Registrations(listeners', i) IN
             /\ Len(regs) = 1
             /\ regs[1].type = KeyString(comp'[i].eventKey)
             /\ regs[1].capture = FlattenCapture(comp'[i].options)
             /\ regs[1].once = FlattenOnce(comp'[i].options)
             /\ comp'[i].handlerRef = comp[i].handlerRef
      /\ ( /\ last.op = "reconfigure"
           /\ last'.op = "emit"
           /\ last.eventKey # comp[last.inst].eventKey ) =>
             /\ last'.eventKey = last.eventKey =>
                  CallsTo(calls', last.inst) = <<>>
             /\ last'.eventKey = comp[last.inst].eventKey =>
                  Len(CallsTo(calls', last.inst)) = 1 ]_vars

\* The instances Active for eventKey.
ActiveOn(c, eventKey) ==
  { i \in Instances : c[i].active /\ c[i].eventKey = eventKey }

\* C6 as stated: an emit on a key on which N instances are Active makes
\* exactly N handler invocations, one per such instance, each with the
\* emitted payload.
C6_FanOutExactlyN ==
  [][ last'.op = "emit" =>
        /\ Len(calls') = Cardinality(ActiveOn(comp, last'.eventKey))
        /\ \A i \in ActiveOn(comp, last'.eventKey) : Len(CallsTo(calls', i)) = 1
        /\ \A n \in 1..Len(calls') : calls'[n].payload = last'.payload ]_vars

\* C7 as stated: an emit on key k1 never invokes the handler of a listener
\* registered under another key token k2.
C7_KeysComparedByIdentity ==
  [][ last'.op = "emit" =>
        \A i \in Instances :
          (comp[i].active /\ comp[i].eventKey # last'.eventKey) =>
            CallsTo(calls', i) = <<>> ]_vars

\* C8: calling the cleanup function of an unmounted instance again leaves the
\* window's listener list and every instance's hook state as they were.
C8_SecondCleanupChangesNothing ==
  [][ last'.op = "cleanupAgain" => listeners' = listeners /\ comp' = comp ]_vars

\* C8 witness: a cleanup function has just been called again while another
\* instance holds a registration of the same event type and capture flag.
C8_Witness ==
  /\ last.op = "cleanupAgain"
  /\ \E i \in Instances :
       /\ ~comp[i].active
       /\ comp[i].cleanup # NoCleanup
       /\ \E n \in 1..Len(listeners) :
            /\ listeners[n].type = comp[i].cleanup.type
            /\ listeners[n].capture = FlattenCapture(comp[i].cleanup.options)

\* C9: a re-render that changes only the handler leaves the window's listener
\* list (registrations, keys, options, order) unchanged and changes nothing
\* but the handler and handlerRef of one instance.
C9_UpdateHandlerKeepsRegistrations ==
  [][ last'.op = "updateHandler" =>
        /\ listeners' = listeners
        /\ Cardinality({ j \in Instances : comp'[j] # comp[j] }) = 1
        /\ \A j \in Instances :
             [comp'[j] EXCEPT !.handler = comp[j].handler,
                              !.handlerRef = comp[j].handlerRef] = comp[j] ]_vars

\* C9 witness: a handler update has just happened on an instance that holds a
\* registration made with another handler, next to another registration.
C9_Witness ==
  /\ last.op = "updateHandler"
  /\ Len(listeners) = 2
  /\ \E i \in Instances :
       /\ comp[i].active
       /\ comp[i].handlerRef # subscribedWith[i]
       /\ Len(Registrations(listeners, i)) = 1

\* C10: an unmount removes the unmounted instance's registration and nothing
\* else: all other registrations stay, in order, the other instances' hook
\* state is unchanged, and an emit that follows still reaches every other
\* instance that holds a registration for the emitted key.
C10_DeactivateRemovesOnlyOwn ==
  [][ /\ last'.op = "deactivate" =>
           \E i \in Instances :
             /\ comp[i].active /\ ~comp'[i].active
             /\ listeners' =
                  SelectSeq(listeners,
                            LAMBDA l : l.callback # comp[i].cleanup.eventListener)
             /\ Registrations(listeners', i) = <<>>
             /\ \A j \in Instances \ {i} :
                  /\ comp'[j] = comp[j]
                  /\ Registrations(listeners', j) = Registrations(listeners, j)
      /\ (last.op = "deactivate" /\ last'.op = "emit") =>
           \A j \in Instances :
             ( /\ comp[j].active
               /\ comp[j].eventKey = last'.eventKey
               /\ Registrations(listeners, j) # <<>> ) =>
                 Len(CallsTo(calls', j)) = 1 ]_vars

\* C10 witness: an emit after an unmount has been delivered to another
\* instance that was registered under the same event type and capture flag
\* as the unmounted one.
C10_Witness ==
  /\ last.op = "emit"
  /\ \E i, j \in Instances :
       /\ ~comp[i].active
       /\ comp[i].cleanup # NoCleanup
       /\ comp[j].active
       /\ comp[i].cleanup.type = KeyString(comp[j].eventKey)
       /\ FlattenCapture(comp[i].cleanup.options) = FlattenCapture(comp[j].options)
       /\ KeyString(last.eventKey) = comp[i].cleanup.type
       /\ Len(CallsTo(calls, j)) = 1

\* The position in the list ls of the registration of instance i.
Pos(ls, i) == CHOOSE n \in 1..Len(ls) : ls[n].callback.inst = i

\* C11 as stated: an emit invokes the listeners of its key in registration
\* order: a listener registered before another is invoked before it.
C11_RegistrationOrder ==
  [][ last'.op = "emit" =>
        \A a, b \in 1..Len(calls') :
          a < b => Pos(listeners, calls'[a].inst) < Pos(listeners, calls'[b].inst) ]_vars

\* C11 amended: an emit invokes, before it returns, the listeners of its
\* event type; listeners with the same capture flag are invoked in
\* registration order, and a capture listener is invoked before a
\* non-capture one whatever their registration order.
C11_OrderWithinCapture ==
  [][ last'.op = "emit" =>
        /\ Len(calls') =
             Len(SelectSeq(listeners,
                           LAMBDA l : l.type = KeyString(last'.eventKey)))
        /\ \A a, b \in 1..Len(calls') :
             a < b =>
               LET la == listeners[Pos(listeners, calls'[a].inst)]
                   lb == listeners[Pos(listeners, calls'[b].inst)] IN
                 \/ la.capture /\ ~lb.capture
                 \/ /\ la.capture = lb.capture
                    /\ Pos(listeners, calls'[a].inst)
                         < Pos(listeners, calls'[b].inst) ]_vars

\* C11 witness: an emit has invoked two listeners, the capture listener
\* first although it was registered after the other one.
C11_Witness ==
  /\ last.op = "emit"
  /\ Len(calls) = 2
  /\ Len(listeners) = 2
  /\ listeners[1].callback.inst = calls[2].inst
  /\ listeners[2].callback.inst = calls[1].inst
  /\ listeners[2].capture /\ ~listeners[1].capture

C16_RegisteredCellFilled ==
  \A n \in 1..Len(listeners) :
    comp[listeners[n].callback.inst].handlerRef \in Handlers

\* C16 witness: a registered instance's handlerRef has just been overwritten
\* with another handler than the one it subscribed with.
C16_Witness ==
  /\ last.op = "updateHandler"
  /\ \E i \in Instances :
       /\ Registrations(listeners, i) # <<>>
       /\ comp[i].handlerRef \in Handlers \ {subscribedWith[i]}

\* C17: a listener subscribed with once is invoked at most once by an emit;
\* its delivery removes its registration while the instance stays Active; an
\* emit that finds no registration of it does not invoke it; a re-render with
\* a new key or options registers it again; and its unmount, when its
\* registration is already gone, leaves the window's list unchanged.
C17_OnceIsSingleShot ==
  [][ /\ last'.op = "emit" =>
           \A i \in Instances :
             (comp[i].active /\ FlattenOnce(comp[i].options)) =>
               /\ Len(CallsTo(calls', i)) <= 1
               /\ CallsTo(calls', i) # <<>> =>
                    Registrations(listeners', i) = <<>> /\ comp'[i].active
               /\ Registrations(listeners, i) = <<>> => CallsTo(calls', i) = <<>>
      /\ last'.op = "reconfigure" =>
           Len(Registrations(listeners', last'.inst)) = 1
      /\ last'.op = "deactivate" =>
           \A i \in Instances :
             ( /\ comp[i].active /\ ~comp'[i].active
               /\ Registrations(listeners, i) = <<>> ) =>
                 listeners' = listeners ]_vars

\* C17 witness: an emit on the key of an Active once listener whose
\* registration an earlier delivery had removed has not invoked it.
C17_Witness ==
  /\ last.op = "emit"
  /\ \E i \in Instances :
       /\ comp[i].active
       /\ FlattenOnce(comp[i].options)
       /\ comp[i].eventKey = last.eventKey
       /\ Registrations(listeners, i) = <<>>
       /\ CallsTo(calls, i) = <<>>

\* C18 as stated: after a re-render that changed only eventKey or options,
\* an emit that reaches the re-subscribed listener invokes it after every
\* other listener it invokes.
C18_ReconfiguredInvokedLast ==
  [][ (last.op = "reconfigure" /\ last'.op = "emit"
         /\ CallsTo(calls', last.inst) # <<>>) =>
        calls'[Len(calls')].inst = last.inst ]_vars

\* C18 amended: a re-render that changed only eventKey or options puts the
\* instance's registration at the end of the window's list; an emit that
\* follows invokes it after every other listener with the same capture flag
\* (a capture listener is invoked before the non-capture ones).
C18_ReconfiguredLastWithinCapture ==
  [][ /\ last'.op = "reconfigure" =>
           /\ listeners' # <<>>
           /\ listeners'[Len(listeners')].callback.inst = last'.inst
      /\ (last.op = "reconfigure" /\ last'.op = "emit"
            /\ CallsTo(calls', last.inst) # <<>>) =>
           \A a, b \in 1..Len(calls') :
             ( /\ calls'[a].inst = last.inst
               /\ calls'[b].inst # last.inst
               /\ FlattenCapture(comp[calls'[b].inst].options)
                    = FlattenCapture(comp[last.inst].options) ) =>
                 b < a ]_vars

\* C18 witness: a re-render with a new key or options has just moved the
\* registration of the instance that was first in the window's list behind
\* the registration of another instance with the same event type and
\* capture flag.
C18_Witness ==
  /\ last.op = "reconfigure"
  /\ Len(listeners) = 2
  /\ listeners[2].callback.inst = last.inst
  /\ listeners[2].callback.id = 2
  /\ listeners[1].callback.id = 1
  /\ listeners[1].type = listeners[2].type
  /\ listeners[1].capture = listeners[2].capture

\* ------------------------------------------------ claims about a dispatch
\* The handlers of the invocations of a dispatch only returned or threw.
OnlyReturnsAndThrows(frame) ==
  \A n \in 1..Len(frame.log) : frame.log[n].does.kind \in {"return", "throw"}

\* The innermost dispatch has looked at all its listeners and is about to
\* return.
AboutToReturn ==
  /\ stack # <<>>
  /\ Head(stack).queue = <<>>
  /\ Head(stack).phase = "bubbling"

\* C13: when a handler throws during the dispatch of an emit, the dispatch
\* is not aborted: by the time the emit returns, every listener that was
\* registered on the key has had its handler invoked exactly once, in the
\* order of the dispatch (stated for a dispatch whose handlers only return
\* or throw, so that nothing else changes the registrations meanwhile).
C13_ThrowDoesNotAbortDispatch ==
  [][ ( /\ AboutToReturn
        /\ stack' = Tail(stack)
        /\ OnlyReturnsAndThrows(Head(stack))
        /\ \E n \in 1..Len(Head(stack).log) :
             Head(stack).log[n].does.kind = "throw" ) =>
        /\ Len(Head(stack).log) = Len(Head(stack).initial)
        /\ \A n \in 1..Len(Head(stack).log) :
             Head(stack).log[n].call.inst
               = Head(stack).initial[n].callback.inst ]_vars

\* C13 witness: a dispatch is about to return in which the handler of the
\* first listener threw and the handler of a second listener was invoked
\* after it.
C13_Witness ==
  /\ AboutToReturn
  /\ OnlyReturnsAndThrows(Head(stack))
  /\ Len(Head(stack).log) = 2
  /\ Head(stack).log[1].does.kind = "throw"
  /\ Head(stack).log[2].call.inst # Head(stack).log[1].call.inst

\* C14 as stated: the listeners of an emit made by a handler are invoked
\* only after the dispatch in progress has completed: no listener of a
\* dispatch has been invoked while an earlier dispatch is still in progress.
C14_ReEmitWaitsForDispatch ==
  Len(stack) >= 2 => Head(stack).log = <<>>

\* C14 amended: an emit made by a handler is dispatched at once, nested in
\* the dispatch in progress: every dispatch that is not the innermost one is
\* waiting inside a handler invocation that called emit, the dispatch above
\* it is the dispatch of that emit, and it takes no step until the dispatch
\* above it has returned.
C14_ReEmitRunsNested ==
  /\ [] ( \A n \in 2..Len(stack) :
            /\ stack[n].log # <<>>
            /\ stack[n].log[Len(stack[n].log)].does.kind = "emit"
            /\ stack[n - 1].event.type
                 = KeyString(stack[n].log[Len(stack[n].log)].does.eventKey) )
  /\ [][ Len(stack) >= 2 =>
           /\ Len(stack') >= Len(stack) - 1
           /\ SubSeq(stack', Len(stack') - Len(stack) + 2, Len(stack'))
                = Tail(stack) ]_vars

\* C14 witness: the dispatch of an emit made by a handler has invoked a
\* listener while the dispatch it was made in still has a listener to
\* invoke.
C14_Witness ==
  /\ Len(stack) = 2
  /\ Head(stack).log # <<>>
  /\ stack[2].queue # <<>>
  /\ ~Removed(listeners, Head(stack[2].queue))

\* C15: a handler is invoked only for a component that is Active and whose
\* listener is in the window's list at that moment: after the cleanup of a
\* deactivation has run, neither a later emit nor the rest of a dispatch in
\* progress invokes the handler.
C15_NoInvocationAfterRemoval ==
  [][ Len(calls') > Len(calls) =>
        /\ comp[calls'[Len(calls')].inst].active
        /\ Registrations(listeners, calls'[Len(calls')].inst) # <<>> ]_vars

\* C15 witness: a dispatch is about to return in which a handler unmounted
\* another instance whose listener the dispatch had set out with, and that
\* instance's handler was not invoked.
C15_Witness ==
  /\ AboutToReturn
  /\ \E n \in 1..Len(Head(stack).log) :
       LET e == Head(stack).log[n] IN
         /\ e.does.kind = "unmount"
         /\ e.does.inst # e.call.inst
         /\ \E m \in 1..Len(Head(stack).initial) :
              Head(stack).initial[m].callback.inst = e.does.inst
         /\ \A m \in 1..Len(Head(stack).log) :
              Head(stack).log[m].call.inst # e.does.inst

====
